---- MODULE Spec2Model ----
(***************************************************************************)
(* Model of the video upload pipeline of handler_upload_video.go:          *)
(* handlerUploadVideo with its helpers getVideoAspectRatio,                *)
(* isApproximately, processVideoForFastStart, generatePresignedURL and     *)
(* dbVideoToSignedVideo.                                                   *)
(*                                                                         *)
(* Strings are sequences of tokens, so that fmt.Sprintf is concatenation   *)
(* and strings.Split is a real split.  float64 values are IEEE-754 binary64*)
(* numbers with a 53-bit significand held as a little-endian sequence of   *)
(* limbs, and every float operation rounds to nearest, ties to even, as    *)
(* the hardware does.                                                      *)
(***************************************************************************)
EXTENDS Integers, Sequences, FiniteSets, TLC

(***************************************************************************)
(* Bounds of the model.                                                    *)
(***************************************************************************)
\* Number of handlerUploadVideo requests, which may run concurrently.
NumRuns == 2
\* Widths and heights 0..MaxDim are classified exhaustively.
MaxDim == 30

(***************************************************************************)
(* Arbitrary-precision naturals: little-endian limbs below LimbBase.       *)
(* They carry the significands of float64 values.                          *)
(***************************************************************************)
LimbBase == 16384
MantBits == 53

RECURSIVE Pow2(_)
Pow2(k) == IF k = 0 THEN 1 ELSE 2 * Pow2(k - 1)

RECURSIVE BitLenInt(_)
BitLenInt(n) == IF n = 0 THEN 0 ELSE 1 + BitLenInt(n \div 2)

RECURSIVE BigNorm(_)
BigNorm(a) ==
  IF a = <<>> THEN <<>>
  ELSE IF a[Len(a)] = 0 THEN BigNorm(SubSeq(a, 1, Len(a) - 1)) ELSE a

RECURSIVE BigFromInt(_)
BigFromInt(n) ==
  IF n = 0 THEN <<>> ELSE <<n % LimbBase>> \o BigFromInt(n \div LimbBase)

BigBitLen(a) ==
  IF a = <<>> THEN 0 ELSE 14 * (Len(a) - 1) + BitLenInt(a[Len(a)])

RECURSIVE BigMulSmallC(_, _, _)
BigMulSmallC(a, s, c) ==
  IF a = <<>> THEN BigFromInt(c)
  ELSE LET t == Head(a) * s + c
       IN  <<t % LimbBase>> \o BigMulSmallC(Tail(a), s, t \div LimbBase)

\* a * s for 0 <= s < LimbBase
BigMulSmall(a, s) == BigNorm(BigMulSmallC(a, s, 0))

RECURSIVE BigDivSmallR(_, _, _, _, _)
BigDivSmallR(a, d, i, rem, q) ==
  IF i = 0 THEN [q |-> BigNorm(q), r |-> rem]
  ELSE LET t == rem * LimbBase + a[i]
       IN  BigDivSmallR(a, d, i - 1, t % d, <<t \div d>> \o q)

\* quotient and remainder of a by d, 0 < d < LimbBase
BigDivSmall(a, d) == BigDivSmallR(a, d, Len(a), 0, <<>>)

RECURSIVE BigAddC(_, _, _)
BigAddC(a, b, c) ==
  IF a = <<>> /\ b = <<>> THEN BigFromInt(c)
  ELSE LET x == IF a = <<>> THEN 0 ELSE Head(a)
           y == IF b = <<>> THEN 0 ELSE Head(b)
           t == x + y + c
       IN  <<t % LimbBase>>
             \o BigAddC(IF a = <<>> THEN a ELSE Tail(a),
                        IF b = <<>> THEN b ELSE Tail(b), t \div LimbBase)

BigAdd(a, b) == BigNorm(BigAddC(a, b, 0))

RECURSIVE BigSubB(_, _, _)
BigSubB(a, b, w) ==
  IF a = <<>> THEN <<>>
  ELSE LET y == IF b = <<>> THEN 0 ELSE Head(b)
           t == Head(a) - y - w
       IN  <<IF t < 0 THEN t + LimbBase ELSE t>>
             \o BigSubB(Tail(a), IF b = <<>> THEN b ELSE Tail(b),
                        IF t < 0 THEN 1 ELSE 0)

\* a - b for a >= b
BigSub(a, b) == BigNorm(BigSubB(a, b, 0))

RECURSIVE BigCmpAt(_, _, _)
BigCmpAt(a, b, i) ==
  IF i = 0 THEN 0
  ELSE IF a[i] < b[i] THEN -1
  ELSE IF a[i] > b[i] THEN 1
  ELSE BigCmpAt(a, b, i - 1)

\* -1, 0 or 1 as a < b, a = b or a > b (both normalised)
BigCmp(a, b) ==
  IF Len(a) < Len(b) THEN -1
  ELSE IF Len(a) > Len(b) THEN 1
  ELSE BigCmpAt(a, b, Len(a))

RECURSIVE BigMul(_, _)
BigMul(a, b) ==
  IF b = <<>> \/ a = <<>> THEN <<>>
  ELSE BigAdd(BigMulSmall(a, Head(b)), BigNorm(<<0>> \o BigMul(a, Tail(b))))

RECURSIVE BigShiftLeft(_, _)
BigShiftLeft(a, k) ==
  IF k = 0 THEN a
  ELSE IF k >= 13 THEN BigShiftLeft(BigMulSmall(a, 8192), k - 13)
  ELSE BigMulSmall(a, Pow2(k))

\* a shifted right by k bits; sticky records whether a one was shifted out
RECURSIVE BigShiftRight(_, _, _)
BigShiftRight(a, k, sticky) ==
  IF k = 0 THEN [q |-> a, sticky |-> sticky]
  ELSE LET s == IF k >= 13 THEN 13 ELSE k
           d == BigDivSmall(a, Pow2(s))
       IN  BigShiftRight(d.q, k - s, sticky \/ d.r # 0)

BigIsOdd(a) == a # <<>> /\ a[1] % 2 = 1

(***************************************************************************)
(* float64.  A finite positive value is m * 2^e with 2^52 <= m < 2^53.     *)
(* Only the values the classifier can produce from non-negative integers   *)
(* are needed: zero, positive finite, +Inf and NaN.                        *)
(***************************************************************************)
FZero == [kind |-> "zero", m |-> <<>>, e |-> 0]
FInf == [kind |-> "inf", m |-> <<>>, e |-> 0]
FNaN == [kind |-> "nan", m |-> <<>>, e |-> 0]

\* The float64 nearest to x * 2^e (plus a positive fraction of an ulp when
\* sticky), ties to even.
RoundToFloat(x, e, sticky) ==
  LET n == BigBitLen(x)
  IN  IF n = 0 THEN FZero
      ELSE IF n <= MantBits
      THEN [kind |-> "fin", m |-> BigShiftLeft(x, MantBits - n),
            e |-> e - (MantBits - n)]
      ELSE LET s == n - MantBits
               t == BigShiftRight(x, s - 1, sticky)
               guard == BigIsOdd(t.q)
               q == BigDivSmall(t.q, 2).q
               up == guard /\ (t.sticky \/ BigIsOdd(q))
               r == IF up THEN BigAdd(q, <<1>>) ELSE q
           IN  IF BigBitLen(r) > MantBits
               THEN [kind |-> "fin", m |-> BigDivSmall(r, 2).q, e |-> e + s + 1]
               ELSE [kind |-> "fin", m |-> r, e |-> e + s]

\* float64(w) / float64(h) for integers 0 <= w, 0 <= h < LimbBase: the
\* correctly rounded quotient; x/0 is +Inf and 0/0 is NaN (no panic in Go).
FDivInt(w, h) ==
  IF h = 0 THEN (IF w = 0 THEN FNaN ELSE FInf)
  ELSE IF w = 0 THEN FZero
  ELSE LET k == MantBits + 2 + BitLenInt(h)
           d == BigDivSmall(BigShiftLeft(BigFromInt(w), k), h)
       IN  RoundToFloat(d.q, 0 - k, d.r # 0)

FMin(x, y) == IF x < y THEN x ELSE y

\* the significands of two finite values over their common exponent
FAlign(a, b) ==
  LET e == FMin(a.e, b.e)
  IN  [a |-> BigShiftLeft(a.m, a.e - e), b |-> BigShiftLeft(b.m, b.e - e),
       e |-> e]

\* math.Abs(a - b) for b finite and positive
FAbsDiff(a, b) ==
  IF a.kind = "nan" THEN FNaN
  ELSE IF a.kind = "inf" THEN FInf
  ELSE IF a.kind = "zero" THEN b
  ELSE LET al == FAlign(a, b)
           c == BigCmp(al.a, al.b)
       IN  IF c = 0 THEN FZero
           ELSE IF c > 0 THEN RoundToFloat(BigSub(al.a, al.b), al.e, FALSE)
           ELSE RoundToFloat(BigSub(al.b, al.a), al.e, FALSE)

\* a * b for finite positive a and b
FMul(a, b) == RoundToFloat(BigMul(a.m, b.m), a.e + b.e, FALSE)

\* a <= b for b finite and positive; every comparison with NaN is false
FLeq(a, b) ==
  IF a.kind = "nan" \/ a.kind = "inf" THEN FALSE
  ELSE IF a.kind = "zero" THEN TRUE
  ELSE LET al == FAlign(a, b) IN BigCmp(al.a, al.b) <= 0

(***************************************************************************)
(* getVideoAspectRatio and isApproximately                                 *)
(***************************************************************************)
\* a tolerance of 0.6, under which the two bands overlap
tolerance_Wide == FDivInt(3, 5)

\* tolerance := 0.05
tolerance == FDivInt(1, 20)
\* the constant expressions 16.0/9.0 and 9.0/16.0
Ratio16by9 == FDivInt(16, 9)
Ratio9by16 == FDivInt(9, 16)

isApproximately(actual, expected) ==
  LET allowedDiff == FMul(expected, tolerance)
  IN  FLeq(FAbsDiff(actual, expected), allowedDiff)

\* the conditions of lines 58 and 62
LandscapeTest(width, height) ==
  width * 9 = height * 16
    \/ isApproximately(FDivInt(width, height), Ratio16by9)
PortraitTest(width, height) ==
  width * 16 = height * 9
    \/ isApproximately(FDivInt(width, height), Ratio9by16)

\* lines 55-66: the category computed from the first stream's dimensions
AspectOf(width, height) ==
  IF LandscapeTest(width, height) THEN "16:9"
  ELSE IF PortraitTest(width, height) THEN "9:16"
  ELSE "other"

(***************************************************************************)
(* The world of handlerUploadVideo                                         *)
(***************************************************************************)
Runs == 1..NumRuns

\* Path values of the request: one that uuid.Parse rejects, two forms of v1
\* (uuid.Parse accepts the urn: form and String() prints the canonical one),
\* v2, and v9, an identifier with no record.
VideoIDStrings == {"not-a-uuid", "v1", "urn:uuid:v1", "v2", "v9"}
NoID == "none"
uuidParse(str) ==
  CASE str = "v1" -> "v1"
    [] str = "urn:uuid:v1" -> "v1"
    [] str = "v2" -> "v2"
    [] str = "v9" -> "v9"
    [] OTHER -> NoID

\* Authorization headers: absent, a token that fails validation, and valid
\* tokens of the two users.
AuthHeaders == {"absent", "Bearer forged", "Bearer jwt-u1", "Bearer jwt-u2"}
NoUser == "nobody"
GetBearerToken(header) ==
  CASE header = "Bearer forged" -> "forged"
    [] header = "Bearer jwt-u1" -> "jwt-u1"
    [] header = "Bearer jwt-u2" -> "jwt-u2"
    [] OTHER -> "error"
ValidateJWT(token) ==
  CASE token = "jwt-u1" -> "u1"
    [] token = "jwt-u2" -> "u2"
    [] OTHER -> NoUser

\* Content-Type headers of the "video" form part and mime.ParseMediaType,
\* which lower-cases the type and drops the parameters.
ContentTypes ==
  {"video/mp4", "Video/MP4; codecs=avc1", "video/avi", "image/png", "video/"}
ParseMediaType(header) ==
  CASE header = "video/mp4" -> "video/mp4"
    [] header = "Video/MP4; codecs=avc1" -> "video/mp4"
    [] header = "video/avi" -> "video/avi"
    [] header = "image/png" -> "image/png"
    [] header = "image/jpeg" -> "image/jpeg"
    [] OTHER -> "error"

\* A *string is a sequence holding no or one string.
Nil == <<>>
Ptr(str) == <<str>>

\* database.Video, the fields this handler reads and writes
Video(id, user, url) ==
  [ID |-> id, UserID |-> user, VideoURL |-> url, ThumbnailURL |-> Nil]
NoVideo == Video(NoID, NoUser, Nil)
InitialDB == [id \in {"v1", "v2"} |->
                Video(id, IF id = "v1" THEN "u1" ELSE "u2", Nil)]

\* cfg.s3Bucket
s3Bucket == <<"tubely-private">>

\* File contents: whose upload they come from, whether the index has been
\* moved to the front, and whether the write completed.
Content(src, faststart, complete) ==
  [src |-> src, faststart |-> faststart, complete |-> complete]
NoContent == Content(0, FALSE, FALSE)

\* Paths: os.CreateTemp("", "tubely-upload.mp4") appends a random decimal
\* string that makes the name unused; the request's number stands for it.
NoPath == <<>>
CreateTemp(r) == <<"/tmp/tubely-upload.mp4", r>>

\* First stream entries the prober may report: width and height.  The tag of
\* Stream.Width lacks its closing quote, so encoding/json falls back to the
\* field name, which matches the key "width" case-insensitively: both fields
\* are decoded, and an entry without them (an audio stream) gives 0 and 0.
StreamDims == {<<1280, 720>>, <<720, 1280>>, <<640, 480>>, <<0, 0>>, <<1280, 0>>}
NoDims == <<-1, -1>>

\* Outcomes of ffprobe and json.Unmarshal (lines 41-53)
ProbeOutcomes ==
  {[kind |-> k, dims |-> NoDims] :
     k \in {"exec error", "bad json", "no streams", "never exits"}}
    \cup {[kind |-> "streams", dims |-> d] : d \in StreamDims}

\* Outcomes of ffmpeg (line 232): done, failed with nothing written, failed
\* after writing part of the output file.  exec.Command is given no context
\* and cmd.Run waits for the process (lines 36-41, 226-232): a process that
\* never exits keeps the call from returning.
RemuxOutcomes == {"ok", "failed", "failed with output", "never exits"}
Blocked == "cmd.Run has not returned"

VARIABLES
  db,      \* the record store: identifier -> database.Video
  s3,      \* the object store: key -> content
  fs,      \* the local filesystem: path -> content
  run,     \* each request's handler: position, locals and what it has done
  probe,   \* a width, a height and the category computed for them
  read,    \* a record held by a caller of dbVideoToSignedVideo, and the
           \* results of its calls
  thumb    \* each thumbnail request's handler: position, locals and what
           \* it has done

vars == <<db, s3, fs, run, probe, read, thumb>>

IdleRun ==
  [pc |-> "idle", videoID |-> NoID, userID |-> NoUser, video |-> NoVideo,
   mediaType |-> "unread", tempFile |-> NoPath, processedFilePath |-> NoPath,
   defers |-> <<>>, aspectRatio |-> "", key |-> <<>>,
   status |-> 0, msg |-> "", body |-> NoVideo,
   \* what the request has done: the collaborators invoked, in order; the
   \* scratch files created; the prober's answer; the key and body handed
   \* to the object store; the record written to the record store
   log |-> <<>>, created |-> {}, probed |-> "", dims |-> NoDims,
   putKey |-> <<>>, putBody |-> NoContent, wrote |-> NoVideo,
   \* the calls and checks that reported a failure, in order; the number
   \* of responses written; the rank of the record update among all the
   \* updates the store has taken
   faults |-> <<>>, responses |-> 0, wroteSeq |-> 0]

\* handlerUploadThumbnail's locals; written: the asset files it has created
\* or truncated; updateErr: what cfg.db.UpdateVideo returned
IdleThumb ==
  [pc |-> "idle", videoID |-> NoID, userID |-> NoUser, video |-> NoVideo,
   mediaType |-> "unread", fileName |-> <<>>, filePath |-> NoPath,
   thumbnailURL |-> Nil, updateErr |-> "not called",
   status |-> 0, msg |-> "", body |-> NoVideo,
   written |-> {}, faults |-> <<>>, responses |-> 0]

NoProbe == [w |-> 0, h |-> 0, res |-> "unset"]

\* orig is the record as fetched, video the caller's record now
Held(video) == [orig |-> video, video |-> video, calls |-> <<>>]
NoRead == Held(NoVideo)

Init ==
  /\ db = InitialDB
  /\ s3 = <<>>
  /\ fs = <<>>
  /\ run = [r \in Runs |-> IdleRun]
  /\ probe = NoProbe
  /\ read = NoRead
  /\ thumb = [r \in Runs |-> IdleThumb]

(***************************************************************************)
(* Helpers of the handler                                                  *)
(***************************************************************************)
\* f with x mapped to v
Put(f, x, v) == [y \in DOMAIN f \cup {x} |-> IF y = x THEN v ELSE f[y]]
\* f without the points in xs
Without(f, xs) == [y \in DOMAIN f \ xs |-> f[y]]
Range(seq) == {seq[i] : i \in DOMAIN seq}

\* respondWithError / respondWithJSON followed by return: the response is
\* written and the handler is over.
Respond(rs, status, msg, body) ==
  [rs EXCEPT !.pc = "done", !.status = status, !.msg = msg, !.body = body,
             !.responses = @ + 1]
respondWithError(rs, status, msg) == Respond(rs, status, msg, NoVideo)

\* The deferred os.Remove calls run when the handler returns.
RunDefers(files, rs) == Without(files, Range(rs.defers))

(***************************************************************************)
(* getVideoAspectRatio, lines 34-68: the prober's outcome decides the      *)
(* error returns, the first stream's dimensions the category.              *)
(***************************************************************************)
\* getVideoAspectRatio without the check of line 51
getVideoAspectRatio_NoStreamCheck(outcome) ==
  IF outcome.kind = "never exits" THEN [ratio |-> "", err |-> Blocked]
  ELSE IF outcome.kind = "exec error" THEN [ratio |-> "", err |-> "ffprobe failed"]
  ELSE IF outcome.kind = "bad json" THEN [ratio |-> "", err |-> "unmarshal failed"]
  ELSE IF outcome.kind = "no streams" THEN [ratio |-> "other", err |-> "nil"]
  ELSE [ratio |-> AspectOf(outcome.dims[1], outcome.dims[2]), err |-> "nil"]

getVideoAspectRatio(outcome) ==
  IF outcome.kind = "never exits" THEN [ratio |-> "", err |-> Blocked]
  ELSE IF outcome.kind = "exec error" THEN [ratio |-> "", err |-> "ffprobe failed"]
  ELSE IF outcome.kind = "bad json" THEN [ratio |-> "", err |-> "unmarshal failed"]
  ELSE IF outcome.kind = "no streams"
  THEN [ratio |-> "", err |-> "no streams found in the video file"]
  ELSE [ratio |-> AspectOf(outcome.dims[1], outcome.dims[2]), err |-> "nil"]

(***************************************************************************)
(* processVideoForFastStart, lines 220-238: the output path, the error and *)
(* the filesystem ffmpeg leaves behind.                                    *)
(***************************************************************************)
processVideoForFastStart(filePath, outcome, files) ==
  LET outPath == filePath \o <<".processing">>
      src == files[filePath].src
  IN  IF outcome = "never exits"
      THEN [path |-> NoPath, err |-> Blocked, files |-> files]
      ELSE IF outcome = "ok"
      THEN [path |-> outPath, err |-> "nil",
            files |-> Put(files, outPath, Content(src, TRUE, TRUE))]
      ELSE IF outcome = "failed with output"
      THEN [path |-> NoPath, err |-> "ffmpeg error",
            files |-> Put(files, outPath, Content(src, FALSE, FALSE))]
      ELSE [path |-> NoPath, err |-> "ffmpeg error", files |-> files]

(***************************************************************************)
(* strings.Split(str, ","), on token sequences                             *)
(***************************************************************************)
RECURSIVE SplitFrom(_, _, _)
SplitFrom(str, i, cur) ==
  IF i > Len(str) THEN <<cur>>
  ELSE IF str[i] = "," THEN <<cur>> \o SplitFrom(str, i + 1, <<>>)
  ELSE SplitFrom(str, i + 1, Append(cur, str[i]))

\* strings.Fields-like: empty parts dropped
Split_SkipsEmpty(str) ==
  SelectSeq(SplitFrom(str, 1, <<>>), LAMBDA part : part # <<>>)

Split(str) == SplitFrom(str, 1, <<>>)

(***************************************************************************)
(* generatePresignedURL, lines 240-260.  PresignGetObject is the SDK's:    *)
(* it fails or returns a URL naming the bucket and the key.                *)
(***************************************************************************)
PresignedURL(bucket, key) ==
  <<"https://">> \o bucket \o <<".s3.amazonaws.com/">> \o key
    \o <<"?X-Amz-Expires=900&X-Amz-Signature=...">>

generatePresignedURL(s3Client, bucket, key, presignOK) ==
  IF s3Client = "nil" THEN [url |-> <<>>, err |-> "s3Client is nil"]
  ELSE IF ~presignOK THEN [url |-> <<>>, err |-> "couldn't create presigned URL"]
  ELSE [url |-> PresignedURL(bucket, key), err |-> "nil"]

(***************************************************************************)
(* dbVideoToSignedVideo, lines 262-288                                     *)
(***************************************************************************)
\* dbVideoToSignedVideo(video) is called by value and assigns only to its
\* copy result: arg is the caller's record after the call, req the bucket
\* and key handed to generatePresignedURL (none if it was not called).
dbVideoToSignedVideo_WritesThrough(video, s3Client, presignOK) ==
  IF video.VideoURL = Nil
  THEN [video |-> video, err |-> "nil", arg |-> video, req |-> <<>>]
  ELSE LET parts == Split(video.VideoURL[1])
       IN  IF Len(parts) # 2
           THEN [video |-> video, err |-> "invalid video URL format",
                 arg |-> video, req |-> <<>>]
           ELSE LET p == generatePresignedURL(s3Client, parts[1], parts[2], presignOK)
                IN  IF p.err # "nil"
                    THEN [video |-> video, err |-> p.err, arg |-> video,
                          req |-> parts]
                    ELSE [video |-> [video EXCEPT !.VideoURL = Ptr(p.url)],
                          err |-> "nil",
                          arg |-> [video EXCEPT !.VideoURL = Ptr(p.url)],
                          req |-> parts]

dbVideoToSignedVideo(video, s3Client, presignOK) ==
  IF video.VideoURL = Nil
  THEN [video |-> video, err |-> "nil", arg |-> video, req |-> <<>>]
  ELSE LET parts == Split(video.VideoURL[1])
       IN  IF Len(parts) # 2
           THEN [video |-> video, err |-> "invalid video URL format",
                 arg |-> video, req |-> <<>>]
           ELSE LET p == generatePresignedURL(s3Client, parts[1], parts[2], presignOK)
                IN  IF p.err # "nil"
                    THEN [video |-> video, err |-> p.err, arg |-> video,
                          req |-> parts]
                    ELSE [video |-> [video EXCEPT !.VideoURL = Ptr(p.url)],
                          err |-> "nil", arg |-> video, req |-> parts]

(***************************************************************************)
(* handlerUploadVideo, lines 78-218, in the steps between which other      *)
(* requests may run.  Each step returns the request's new state; a step    *)
(* that responds ends the handler, and the deferred removals run.          *)
(***************************************************************************)
Logged(rs, op) == [rs EXCEPT !.log = Append(@, op)]
\* op returned an error, or the check op failed
Err(rs, op) == [rs EXCEPT !.faults = Append(@, op)]

\* the filesystem after a step: on return the deferred os.Remove calls run
Return(rs, files) == IF rs.pc = "done" THEN RunDefers(files, rs) ELSE files

\* AuthenticateStep without the comparison of line 109
AuthenticateStep_NoOwnerCheck(rs, idString, header, records, dbOK) ==
  LET videoID == uuidParse(idString)
      token == GetBearerToken(header)
      userID == ValidateJWT(token)
      r1 == [rs EXCEPT !.videoID = videoID]
      r2 == [r1 EXCEPT !.userID = userID]
  IN  IF videoID = NoID THEN respondWithError(Err(rs, "uuid.Parse"), 400, "Invalid ID")
      ELSE IF token = "error" THEN respondWithError(Err(r1, "GetBearerToken"), 401, "Couldn't find JWT")
      ELSE IF userID = NoUser
      THEN respondWithError(Err(r1, "ValidateJWT"), 401, "Couldn't validate JWT")
      ELSE IF videoID \notin DOMAIN records \/ ~dbOK
      THEN respondWithError(Err(r2, "GetVideo"), 404, "Couldn't find video")
      ELSE [r2 EXCEPT !.pc = "form", !.video = records[videoID]]

\* lines 80-112: identifier, credential, record and ownership
AuthenticateStep(rs, idString, header, records, dbOK) ==
  LET videoID == uuidParse(idString)
      token == GetBearerToken(header)
      userID == ValidateJWT(token)
      r1 == [rs EXCEPT !.videoID = videoID]
      r2 == [r1 EXCEPT !.userID = userID]
  IN  IF videoID = NoID THEN respondWithError(Err(rs, "uuid.Parse"), 400, "Invalid ID")
      ELSE IF token = "error" THEN respondWithError(Err(r1, "GetBearerToken"), 401, "Couldn't find JWT")
      ELSE IF userID = NoUser
      THEN respondWithError(Err(r1, "ValidateJWT"), 401, "Couldn't validate JWT")
      ELSE IF videoID \notin DOMAIN records \/ ~dbOK
      THEN respondWithError(Err(r2, "GetVideo"), 404, "Couldn't find video")
      ELSE LET video == records[videoID]
               r3 == [r2 EXCEPT !.video = video]
           IN  IF video.UserID # userID
               THEN respondWithError(Err(r3, "NotOwner"), 401, "You don't own this video")
               ELSE [r3 EXCEPT !.pc = "form"]

\* ParseFormStep accepting every media type but images
ParseFormStep_AnyVideoType(rs, formOK, contentType) ==
  LET mediaType == ParseMediaType(contentType)
      r1 == [rs EXCEPT !.mediaType = mediaType]
  IN  IF ~formOK THEN respondWithError(Err(rs, "FormFile"), 400, "Couldn't parse video")
      ELSE IF mediaType = "error"
      THEN respondWithError(Err(r1, "ParseMediaType"), 400, "Invalid content type")
      ELSE IF mediaType = "image/png"
      THEN respondWithError(Err(r1, "UnsupportedMediaType"), 400, "Media type not allowed. Only mp4 is supported")
      ELSE [r1 EXCEPT !.pc = "stage"]

\* lines 114-130: the form part and its content type
ParseFormStep(rs, formOK, contentType) ==
  LET mediaType == ParseMediaType(contentType)
      r1 == [rs EXCEPT !.mediaType = mediaType]
  IN  IF ~formOK THEN respondWithError(Err(rs, "FormFile"), 400, "Couldn't parse video")
      ELSE IF mediaType = "error"
      THEN respondWithError(Err(r1, "ParseMediaType"), 400, "Invalid content type")
      ELSE IF mediaType # "video/mp4"
      THEN respondWithError(Err(r1, "UnsupportedMediaType"), 400, "Media type not allowed. Only mp4 is supported")
      ELSE [r1 EXCEPT !.pc = "stage"]

\* StageStep handing the staged file to the prober without the remux
StageStep_SkipRemux(r, rs, files, createOK, copyOK) ==
  LET path == CreateTemp(r)
      r1 == Logged(rs, "CreateTemp")
      r2 == [Logged(r1, "Copy") EXCEPT !.tempFile = path, !.defers = <<path>>,
                                      !.created = @ \cup {path}]
  IN  IF ~createOK
      THEN [rs |-> respondWithError(Err(r1, "CreateTemp"), 500, "Couldn't create temp file"),
            files |-> files]
      ELSE IF ~copyOK
      THEN [rs |-> respondWithError(Err(r2, "Copy"), 500, "Failed to copy file"),
            files |-> Put(files, path, Content(r, FALSE, FALSE))]
      ELSE [rs |-> [r2 EXCEPT !.pc = "probe"],
            files |-> Put(files, path, Content(r, FALSE, TRUE))]

\* lines 132-145: the temp file, the deferred removal and the copy
StageStep(r, rs, files, createOK, copyOK) ==
  LET path == CreateTemp(r)
      r1 == Logged(rs, "CreateTemp")
      r2 == [Logged(r1, "Copy") EXCEPT !.tempFile = path, !.defers = <<path>>,
                                      !.created = @ \cup {path}]
  IN  IF ~createOK
      THEN [rs |-> respondWithError(Err(r1, "CreateTemp"), 500, "Couldn't create temp file"),
            files |-> files]
      ELSE IF ~copyOK
      THEN [rs |-> respondWithError(Err(r2, "Copy"), 500, "Failed to copy file"),
            files |-> Put(files, path, Content(r, FALSE, FALSE))]
      ELSE [rs |-> [r2 EXCEPT !.pc = "remux"],
            files |-> Put(files, path, Content(r, FALSE, TRUE))]

\* RemuxStep answering a remux failure with 400
RemuxStep_BadRequest(rs, files, outcome) ==
  LET p == processVideoForFastStart(rs.tempFile, outcome, files)
      r1 == [Logged(rs, "ffmpeg") EXCEPT
               !.created = @ \cup (DOMAIN p.files \ DOMAIN files)]
  IN  IF p.err = Blocked
      THEN [rs |-> [r1 EXCEPT !.pc = "in ffmpeg"], files |-> p.files]
      ELSE IF p.err # "nil"
      THEN [rs |-> respondWithError(Err(r1, "ffmpeg"), 400, "Failed to process video for fast start"),
            files |-> p.files]
      ELSE [rs |-> [r1 EXCEPT !.pc = "probe", !.processedFilePath = p.path,
                              !.defers = <<p.path>> \o @],
            files |-> p.files]

\* lines 147-154: the remux and the deferred removal of its output
RemuxStep(rs, files, outcome) ==
  LET p == processVideoForFastStart(rs.tempFile, outcome, files)
      r1 == [Logged(rs, "ffmpeg") EXCEPT
               !.created = @ \cup (DOMAIN p.files \ DOMAIN files)]
  IN  IF p.err = Blocked
      THEN [rs |-> [r1 EXCEPT !.pc = "in ffmpeg"], files |-> p.files]
      ELSE IF p.err # "nil"
      THEN [rs |-> respondWithError(Err(r1, "ffmpeg"), 500, "Failed to process video for fast start"),
            files |-> p.files]
      ELSE [rs |-> [r1 EXCEPT !.pc = "probe", !.processedFilePath = p.path,
                              !.defers = <<p.path>> \o @],
            files |-> p.files]

\* lines 168-178: the key prefix of a category and the key
Prefix(aspectRatio) ==
  CASE aspectRatio = "16:9" -> "landscape/"
    [] aspectRatio = "9:16" -> "portrait/"
    [] OTHER -> "other/"

\* Key with a fixed name in place of the record identifier
Key_FixedName(prefix, videoID) == <<prefix, "video", ".mp4">>

Key(prefix, videoID) == <<prefix, videoID, ".mp4">>

\* lines 156-178: the rewind, the probe and the key
ProbeStep(rs, seekOK, outcome) ==
  LET r1 == Logged(rs, "Seek")
      r2 == [Logged(r1, "ffprobe") EXCEPT !.probed = outcome.kind,
                                         !.dims = outcome.dims]
      a == getVideoAspectRatio(outcome)
  IN  IF ~seekOK THEN respondWithError(Err(r1, "Seek"), 500, "Failed to reset the file position")
      ELSE IF a.err = Blocked THEN [r2 EXCEPT !.pc = "in ffprobe"]
      ELSE IF a.err # "nil"
      THEN respondWithError(Err(r2, "ffprobe"), 500, "Failed to determine aspect ratio")
      ELSE [r2 EXCEPT !.pc = "put", !.aspectRatio = a.ratio,
                      !.key = Key(Prefix(a.ratio), rs.videoID)]

\* PutStep uploading the staged file in place of the processed one
PutStep_UploadsStaged(rs, files, objects, openOK, putOK) ==
  LET r1 == Logged(rs, "Open")
      r2 == [Logged(r1, "PutObject") EXCEPT
               !.putKey = rs.key, !.putBody = files[rs.tempFile]]
  IN  IF ~openOK \/ rs.tempFile \notin DOMAIN files
      THEN [rs |-> respondWithError(Err(r1, "Open"), 500, "Failed to open processed file"),
            objects |-> objects]
      ELSE IF ~putOK
      THEN [rs |-> respondWithError(Err(r2, "PutObject"), 500, "Failed to upload to S3"),
            objects |-> objects]
      ELSE [rs |-> [r2 EXCEPT !.pc = "update"],
            objects |-> Put(objects, rs.key, files[rs.tempFile])]

\* lines 180-200: the processed file is opened and put under the key
PutStep(rs, files, objects, openOK, putOK) ==
  LET r1 == Logged(rs, "Open")
      r2 == [Logged(r1, "PutObject") EXCEPT
               !.putKey = rs.key, !.putBody = files[rs.processedFilePath]]
  IN  IF ~openOK \/ rs.processedFilePath \notin DOMAIN files
      THEN [rs |-> respondWithError(Err(r1, "Open"), 500, "Failed to open processed file"),
            objects |-> objects]
      ELSE IF ~putOK
      THEN [rs |-> respondWithError(Err(r2, "PutObject"), 500, "Failed to upload to S3"),
            objects |-> objects]
      ELSE [rs |-> [r2 EXCEPT !.pc = "update"],
            objects |-> Put(objects, rs.key, files[rs.processedFilePath])]

\* UpdateStep that keeps a reference the record already has
UpdateStep_FirstWriteWins(rs, records, updateOK) ==
  LET bucketKeyString == s3Bucket \o <<",">> \o rs.key
      video == [rs.video EXCEPT !.VideoURL = Ptr(bucketKeyString)]
      r1 == [Logged(rs, "UpdateVideo") EXCEPT !.video = video]
  IN  IF ~updateOK
      THEN [rs |-> respondWithError(Err(r1, "UpdateVideo"), 500, "Failed to update video URL in database"),
            records |-> records]
      ELSE [rs |-> [r1 EXCEPT !.pc = "sign", !.wrote = video],
            records |-> IF records[video.ID].VideoURL = Nil
                        THEN [records EXCEPT ![video.ID] = video]
                        ELSE records]

\* UpdateStep going on to the signing after a failed update
UpdateStep_IgnoresError(rs, records, updateOK) ==
  LET bucketKeyString == s3Bucket \o <<",">> \o rs.key
      video == [rs.video EXCEPT !.VideoURL = Ptr(bucketKeyString)]
      r1 == [Logged(rs, "UpdateVideo") EXCEPT !.video = video]
  IN  IF ~updateOK
      THEN [rs |-> [Err(r1, "UpdateVideo") EXCEPT !.pc = "sign"],
            records |-> records]
      ELSE [rs |-> [r1 EXCEPT !.pc = "sign", !.wrote = video],
            records |-> [records EXCEPT ![video.ID] = video]]

\* lines 202-209: the reference is written to the record
UpdateStep(rs, records, updateOK) ==
  LET bucketKeyString == s3Bucket \o <<",">> \o rs.key
      video == [rs.video EXCEPT !.VideoURL = Ptr(bucketKeyString)]
      r1 == [Logged(rs, "UpdateVideo") EXCEPT !.video = video]
  IN  IF ~updateOK
      THEN [rs |-> respondWithError(Err(r1, "UpdateVideo"), 500, "Failed to update video URL in database"),
            records |-> records]
      ELSE [rs |-> [r1 EXCEPT !.pc = "sign", !.wrote = video],
            records |-> [records EXCEPT ![video.ID] = video]]

\* lines 211-217: the signed copy is the response
SignStep(rs, presignOK) ==
  LET signed == dbVideoToSignedVideo(rs.video, "client", presignOK)
      r1 == Logged(rs, "Presign")
  IN  IF signed.err # "nil"
      THEN respondWithError(Err(r1, "Presign"), 500, "Failed to generate signed URL")
      ELSE Respond(r1, 200, "", signed.video)

(***************************************************************************)
(* Actions                                                                 *)
(***************************************************************************)
\* Requests are numbered in the order in which they arrive.
Authenticate(r) ==
  /\ run[r].pc = "idle"
  /\ \A q \in Runs : q < r => run[q].pc # "idle"
  /\ \E idString \in VideoIDStrings, header \in AuthHeaders, dbOK \in BOOLEAN :
       run' = [run EXCEPT ![r] = AuthenticateStep(@, idString, header, db, dbOK)]
  /\ UNCHANGED <<db, s3, fs, probe, read, thumb>>

ParseForm(r) ==
  /\ run[r].pc = "form"
  /\ \E formOK \in BOOLEAN, contentType \in ContentTypes :
       run' = [run EXCEPT ![r] = ParseFormStep(@, formOK, contentType)]
  /\ UNCHANGED <<db, s3, fs, probe, read, thumb>>

Stage(r) ==
  /\ run[r].pc = "stage"
  /\ \E createOK \in BOOLEAN, copyOK \in BOOLEAN :
       LET o == StageStep(r, run[r], fs, createOK, copyOK)
       IN  /\ run' = [run EXCEPT ![r] = o.rs]
           /\ fs' = Return(o.rs, o.files)
  /\ UNCHANGED <<db, s3, probe, read, thumb>>

Remux(r) ==
  /\ run[r].pc = "remux"
  /\ \E outcome \in RemuxOutcomes :
       LET o == RemuxStep(run[r], fs, outcome)
       IN  /\ run' = [run EXCEPT ![r] = o.rs]
           /\ fs' = Return(o.rs, o.files)
  /\ UNCHANGED <<db, s3, probe, read, thumb>>

Probe(r) ==
  /\ run[r].pc = "probe"
  /\ \E seekOK \in BOOLEAN, outcome \in ProbeOutcomes :
       LET rs == ProbeStep(run[r], seekOK, outcome)
       IN  /\ run' = [run EXCEPT ![r] = rs]
           /\ fs' = Return(rs, fs)
  /\ UNCHANGED <<db, s3, probe, read, thumb>>

PutObject(r) ==
  /\ run[r].pc = "put"
  /\ \E openOK \in BOOLEAN, putOK \in BOOLEAN :
       LET o == PutStep(run[r], fs, s3, openOK, putOK)
       IN  /\ run' = [run EXCEPT ![r] = o.rs]
           /\ s3' = o.objects
           /\ fs' = Return(o.rs, fs)
  /\ UNCHANGED <<db, probe, read, thumb>>

\* the record updates are numbered in the order in which the store takes them
Updates == {r \in Runs : run[r].wroteSeq > 0}

UpdateVideo(r) ==
  /\ run[r].pc = "update"
  /\ \E updateOK \in BOOLEAN :
       LET o == UpdateStep(run[r], db, updateOK)
       IN  /\ run' = [run EXCEPT ![r] =
                       IF o.rs.wrote = NoVideo THEN o.rs
                       ELSE [o.rs EXCEPT !.wroteSeq = Cardinality(Updates) + 1]]
           /\ db' = o.records
           /\ fs' = Return(o.rs, fs)
  /\ UNCHANGED <<s3, probe, read, thumb>>

Sign(r) ==
  /\ run[r].pc = "sign"
  /\ \E presignOK \in BOOLEAN :
       LET rs == SignStep(run[r], presignOK)
       IN  /\ run' = [run EXCEPT ![r] = rs]
           /\ fs' = Return(rs, fs)
  /\ UNCHANGED <<db, s3, probe, read, thumb>>

handlerUploadVideo(r) ==
  \/ Authenticate(r)
  \/ ParseForm(r)
  \/ Stage(r)
  \/ Remux(r)
  \/ Probe(r)
  \/ PutObject(r)
  \/ UpdateVideo(r)
  \/ Sign(r)

Next == \E r \in Runs : handlerUploadVideo(r)

Spec == Init /\ [][Next]_vars

(***************************************************************************)
(* The classifier alone: every width and height of the grid, and the       *)
(* dimensions at the edges of the two tolerance bands.                     *)
(***************************************************************************)
EdgeDims == {45, 76, 171, 189, 320, 720, 721, 1280}
GridDims == (0..MaxDim) \cup EdgeDims

InitClassify ==
  /\ db = InitialDB
  /\ s3 = <<>>
  /\ fs = <<>>
  /\ run = [r \in Runs |-> IdleRun]
  /\ probe \in [w : GridDims, h : GridDims, res : {"unset"}]
  /\ read = NoRead
  /\ thumb = [r \in Runs |-> IdleThumb]

Classify ==
  /\ probe.res = "unset"
  /\ probe' = [probe EXCEPT !.res =
       getVideoAspectRatio([kind |-> "streams", dims |-> <<probe.w, probe.h>>]).ratio]
  /\ UNCHANGED <<db, s3, fs, run, read, thumb>>

SpecClassify == InitClassify /\ [][Classify]_vars

(***************************************************************************)
(* Reads: a caller fetches a record and calls dbVideoToSignedVideo on it,  *)
(* twice at most, then drops what it holds.  The uploads go on between     *)
(* the reads.  The function is also applied to every reference of up to    *)
(* MaxRefLen tokens, well-formed or not.                                   *)
(***************************************************************************)
MaxRefLen == 4
RefTokens == {"tubely-private", ",", "other/v1.mp4"}

RECURSIVE SeqsUpTo(_, _)
SeqsUpTo(tokens, n) ==
  IF n = 0 THEN {<<>>}
  ELSE LET shorter == SeqsUpTo(tokens, n - 1)
       IN  shorter \cup {Append(q, t) : q \in shorter, t \in tokens}

References == SeqsUpTo(RefTokens, MaxRefLen)

InitRead ==
  /\ db = InitialDB
  /\ s3 = <<>>
  /\ fs = <<>>
  /\ run = [r \in Runs |-> IdleRun]
  /\ probe = NoProbe
  /\ read \in {NoRead} \cup {Held(Video("v1", "u1", Ptr(ref))) : ref \in References}
  /\ thumb = [r \in Runs |-> IdleThumb]

\* GetVideo by a reader
Fetch ==
  /\ read = NoRead
  /\ \E id \in DOMAIN db : read' = Held(db[id])
  /\ UNCHANGED <<db, s3, fs, run, probe, thumb>>

\* a call of dbVideoToSignedVideo on the record held
Resolve ==
  /\ read # NoRead
  /\ Len(read.calls) < 2
  /\ \E s3Client \in {"nil", "client"}, presignOK \in BOOLEAN :
       LET res == dbVideoToSignedVideo(read.video, s3Client, presignOK)
       IN  read' = [read EXCEPT !.video = res.arg, !.calls = Append(@, res)]
  /\ UNCHANGED <<db, s3, fs, run, probe, thumb>>

\* the reader returns
Forget ==
  /\ read # NoRead
  /\ read' = NoRead
  /\ UNCHANGED <<db, s3, fs, run, probe, thumb>>

Upload ==
  /\ read = NoRead
  /\ \E r \in Runs : handlerUploadVideo(r)

NextRead == Upload \/ Fetch \/ Resolve \/ Forget

SpecRead == InitRead /\ [][NextRead]_vars

(***************************************************************************)
(* Properties                                                              *)
(***************************************************************************)
Done(r) == run[r].pc = "done"
Succeeded(r) == Done(r) /\ run[r].status = 200
Invoked(r, op) == op \in Range(run[r].log)
IsPrefix(a, b) == Len(a) <= Len(b) /\ a = SubSeq(b, 1, Len(a))

\* C1: when a run has ended, no scratch file it created (the staged upload
\* or the remuxer's output, even one written before the remuxer failed)
\* is still on the filesystem.
C1_NoScratchFileLeft ==
  \A r \in Runs : Done(r) => run[r].created \cap DOMAIN fs = {}

\* C2: an upload whose declared media type is not video/mp4 (or does not
\* parse) creates no staged file, invokes neither the remuxer nor the prober
\* nor the object store put, and writes no record.
C2_UnsupportedTypeDoesNothing ==
  \A r \in Runs :
    run[r].mediaType \notin {"unread", "video/mp4"} =>
      /\ Done(r) /\ run[r].status = 400
      /\ run[r].log = <<>>
      /\ run[r].created = {}
      /\ run[r].putKey = <<>>
      /\ run[r].wrote = NoVideo

C2_UnsupportedTypeSeen ==
  \E r \in Runs : Done(r) /\ run[r].mediaType = "video/avi"

\* C3: a requester who is not the owner of the fetched record gets the
\* NotOwner failure with nothing staged, put or written, and every run that
\* stages anything has passed the ownership check.
C3_NotOwnerDoesNothing ==
  \A r \in Runs :
    /\ (run[r].video # NoVideo /\ run[r].video.UserID # run[r].userID) =>
         /\ Done(r) /\ run[r].status = 401
         /\ run[r].msg = "You don't own this video"
         /\ run[r].log = <<>>
         /\ run[r].created = {}
         /\ run[r].putKey = <<>>
         /\ run[r].wrote = NoVideo
    /\ run[r].log # <<>> =>
         run[r].video # NoVideo /\ run[r].video.UserID = run[r].userID

C3_NotOwnerSeen ==
  \E r \in Runs :
    /\ Done(r) /\ run[r].video # NoVideo
    /\ run[r].video.UserID # run[r].userID

\* The stage each collaborator call belongs to, numbered as the
\* specification orders them (Staged, Probed, Remuxed, Uploaded, Resolved).
SpecStage(op) ==
  CASE op \in {"CreateTemp", "Copy"} -> 1
    [] op \in {"Seek", "ffprobe"} -> 2
    [] op = "ffmpeg" -> 3
    [] op \in {"Open", "PutObject"} -> 4
    [] OTHER -> 5

\* C4 as stated: the stages are entered in the order Staged, Probed,
\* Remuxed, Uploaded, Resolved, so the prober runs before the remuxer and a
\* run whose probe fails has not invoked the remuxer.
C4_ProbeBeforeRemux ==
  \A r \in Runs :
    /\ \A i, j \in DOMAIN run[r].log :
         i < j => SpecStage(run[r].log[i]) <= SpecStage(run[r].log[j])
    /\ (Done(r) /\ run[r].msg = "Failed to determine aspect ratio") =>
         ~Invoked(r, "ffmpeg")

\* The order in which the handler invokes its collaborators.
CodeOrder ==
  <<"CreateTemp", "Copy", "ffmpeg", "Seek", "ffprobe", "Open", "PutObject",
    "UpdateVideo", "Presign">>

\* C4 amended: the stages are entered in the order Received, Validated,
\* Staged, Remuxed, Probed, Classified, Uploaded, Resolved, Completed: the
\* remuxer is invoked on the staged input before the prober, so a run whose
\* remux fails never invokes the prober, and a run whose probe fails has
\* already invoked the remuxer.
C4_RemuxBeforeProbe ==
  \A r \in Runs :
    /\ IsPrefix(run[r].log, CodeOrder)
    /\ run[r].log # <<>> =>
         /\ run[r].mediaType = "video/mp4"
         /\ run[r].video # NoVideo /\ run[r].video.UserID = run[r].userID
    /\ (Done(r) /\ run[r].msg = "Failed to process video for fast start") =>
         ~Invoked(r, "ffprobe")
    /\ (Done(r) /\ run[r].msg = "Failed to determine aspect ratio") =>
         Invoked(r, "ffmpeg")
    /\ Succeeded(r) => run[r].log = CodeOrder

C4_ProbeFailedAfterRemux ==
  \E r \in Runs :
    /\ Done(r) /\ run[r].msg = "Failed to determine aspect ratio"
    /\ Invoked(r, "ffprobe")

\* C5: a run that fails with a storage fault (the put failed, or the
\* signing failed) has not written the record.
C5_StorageFaultLeavesRecord ==
  \A r \in Runs :
    (Done(r) /\ run[r].msg \in {"Failed to upload to S3",
                                "Failed to generate signed URL"}) =>
      run[r].wrote = NoVideo

\* C6: a prober output with no stream entry makes getVideoAspectRatio
\* return the no-streams error, and the run ends with a failure without a
\* put and without a record update.
C6_NoStreamsFails ==
  /\ getVideoAspectRatio([kind |-> "no streams", dims |-> NoDims]).err
       = "no streams found in the video file"
  /\ \A r \in Runs :
       run[r].probed = "no streams" =>
         /\ Done(r) /\ run[r].status = 500
         /\ ~Invoked(r, "PutObject") /\ ~Invoked(r, "UpdateVideo")
         /\ run[r].putKey = <<>>
         /\ run[r].wrote = NoVideo

C6_NoStreamsSeen ==
  \E r \in Runs : Done(r) /\ run[r].probed = "no streams"

\* The classification over the rationals: 5% of 16/9 is 4/45 and 5% of 9/16
\* is 9/320, so |w/h - 16/9| <= 4/45 is 5*|9w - 16h| <= 4h and
\* |w/h - 9/16| <= 9/320 is 20*|16w - 9h| <= 9h.
Abs(x) == IF x < 0 THEN 0 - x ELSE x
RefLandscape(w, h) == w * 9 = h * 16 \/ 5 * Abs(9 * w - 16 * h) <= 4 * h
RefPortrait(w, h) == w * 16 = h * 9 \/ 20 * Abs(16 * w - 9 * h) <= 9 * h
RefCategory(w, h) ==
  IF RefLandscape(w, h) THEN "16:9"
  ELSE IF RefPortrait(w, h) THEN "9:16"
  ELSE "other"

\* C7: for positive width and height the category computed equals the
\* reference: landscape if exact or within 5% of 16/9, else portrait if
\* exact or within 5% of 9/16, else other.
C7_MatchesReference ==
  (probe.res # "unset" /\ probe.w > 0 /\ probe.h > 0) =>
    probe.res = RefCategory(probe.w, probe.h)

\* C8: a first stream whose height is not greater than 0 is rejected:
\* the run gets no category, reaches no put and does not succeed.
C8_InvalidDimensionsRejected ==
  \A r \in Runs :
    (run[r].probed = "streams" /\ run[r].dims[2] <= 0) =>
      /\ run[r].aspectRatio = ""
      /\ run[r].pc \notin {"put", "update", "sign"}
      /\ run[r].putKey = <<>>
      /\ ~Succeeded(r)

\* C9 as stated: any two successful runs put under different keys.
C9_KeysDiffer ==
  \A p, q \in Runs :
    (p # q /\ Succeeded(p) /\ Succeeded(q)) => run[p].putKey # run[q].putKey

\* C9 amended: the key is unique per record identifier and orientation
\* category: two successful runs put under the same key exactly when they
\* are for the same record and their videos fall in the same category.
C9_KeyPerRecordAndCategory ==
  \A p, q \in Runs :
    (p # q /\ Succeeded(p) /\ Succeeded(q)) =>
      (run[p].putKey = run[q].putKey
         <=> (run[p].videoID = run[q].videoID
                /\ run[p].aspectRatio = run[q].aspectRatio))

C9_SameKeyTwice ==
  \E p, q \in Runs :
    /\ p # q /\ Succeeded(p) /\ Succeeded(q)
    /\ run[p].putKey = run[q].putKey

\* C10: in a successful run the key put is prefix + record identifier +
\* ".mp4" with the prefix of the category (landscape/ for 1280x720), the
\* body put is the remuxed artifact of this upload, and the reference
\* written to the record and the URL returned name this bucket and key.
CategoryPrefix(aspectRatio) ==
  IF aspectRatio = "16:9" THEN "landscape/"
  ELSE IF aspectRatio = "9:16" THEN "portrait/"
  ELSE "other/"

C10_SuccessfulRun ==
  \A r \in Runs :
    Succeeded(r) =>
      /\ run[r].putKey
           = <<CategoryPrefix(run[r].aspectRatio), run[r].videoID, ".mp4">>
      /\ run[r].dims = <<1280, 720>> => run[r].putKey[1] = "landscape/"
      /\ run[r].dims = <<720, 1280>> => run[r].putKey[1] = "portrait/"
      /\ run[r].dims = <<640, 480>> => run[r].putKey[1] = "other/"
      /\ run[r].putBody = Content(r, TRUE, TRUE)
      /\ run[r].wrote.ID = run[r].videoID
      /\ run[r].wrote.VideoURL = Ptr(s3Bucket \o <<",">> \o run[r].putKey)
      /\ run[r].body.ID = run[r].videoID
      /\ run[r].body.VideoURL = Ptr(PresignedURL(s3Bucket, run[r].putKey))

C10_LandscapeSucceeded ==
  \E r \in Runs : Succeeded(r) /\ run[r].dims = <<1280, 720>>

(***************************************************************************)
(* handlerUploadThumbnail, src/unnamed/part_000 lines 17-110               *)
(***************************************************************************)
\* Content-Type headers of the "thumbnail" form part
ThumbContentTypes == {"image/png", "image/jpeg", "video/mp4", "image/"}

\* cfg.assetsRoot and the base of the asset URLs (line 94)
assetsRoot == "./assets/"
AssetsBase == <<"http://localhost:", "port", "/assets/">>

\* What the error value of line 96 is as a JSON body
ErrorValue(err) == [error |-> err]

\* lines 18-58: the identifier, the credentials, the form part and its type
ThumbValidateStep(ts, idString, header, formOK, contentType) ==
  LET videoID == uuidParse(idString)
      token == GetBearerToken(header)
      userID == ValidateJWT(token)
      mediaType == ParseMediaType(contentType)
      t1 == [ts EXCEPT !.videoID = videoID]
      t2 == [t1 EXCEPT !.userID = userID]
      t3 == [t2 EXCEPT !.mediaType = mediaType]
  IN  IF videoID = NoID THEN respondWithError(Err(ts, "uuid.Parse"), 400, "Invalid ID")
      ELSE IF token = "error" THEN respondWithError(Err(t1, "GetBearerToken"), 401, "Couldn't find JWT")
      ELSE IF userID = NoUser
      THEN respondWithError(Err(t1, "ValidateJWT"), 401, "Couldn't validate JWT")
      ELSE IF ~formOK
      THEN respondWithError(Err(t2, "FormFile"), 400, "Unable to parse form file")
      ELSE IF mediaType = "error"
      THEN respondWithError(Err(t3, "ParseMediaType"), 400, "Invalid content type")
      ELSE IF mediaType # "image/jpeg" /\ mediaType # "image/png"
      THEN respondWithError(Err(t3, "UnsupportedMediaType"), 400, "Media type not allowed. Only jpeg and png are supported")
      ELSE [t3 EXCEPT !.pc = "write"]

\* lines 60-81: the asset file is created (or truncated) and filled
ThumbWriteStep(r, ts, files, createOK, copyOK) ==
  LET fileExtension == IF ts.mediaType = "image/jpeg" THEN "jpg" ELSE "png"
      fileName == <<ts.videoID, ".", fileExtension>>
      filePath == <<assetsRoot>> \o fileName
      t1 == [ts EXCEPT !.fileName = fileName, !.filePath = filePath]
      t2 == [t1 EXCEPT !.written = @ \cup {filePath}]
  IN  IF ~createOK
      THEN [ts |-> respondWithError(Err(t1, "Create"), 500, "Failed to create file"),
            files |-> files]
      ELSE IF ~copyOK
      THEN [ts |-> respondWithError(Err(t2, "Copy"), 500, "Failed to write file content"),
            files |-> Put(files, filePath, Content(r, FALSE, FALSE))]
      ELSE [ts |-> [t2 EXCEPT !.pc = "lookup"],
            files |-> Put(files, filePath, Content(r, FALSE, TRUE))]

\* lines 83-92: the record and its owner
ThumbLookupStep(ts, records, dbOK) ==
  IF ts.videoID \notin DOMAIN records \/ ~dbOK
  THEN respondWithError(Err(ts, "GetVideo"), 404, "Couldn't find video")
  ELSE LET video == records[ts.videoID]
           t1 == [ts EXCEPT !.video = video]
       IN  IF video.UserID # ts.userID
           THEN respondWithError(Err(t1, "NotOwner"), 401, "You don't own this video")
           ELSE [t1 EXCEPT !.pc = "update"]

\* lines 94-109: cfg.db.UpdateVideo returns an error value only (see line
\* 205 of handler_upload_video.go); it is named updatedVideo, never tested,
\* and sent as the body of the 200 response.
ThumbUpdateStep(ts, records, updateOK) ==
  LET thumbnailURL == Ptr(AssetsBase \o ts.fileName)
      video == [ts.video EXCEPT !.ThumbnailURL = thumbnailURL]
      updatedVideo == IF updateOK THEN "nil" ELSE "update failed"
      t1 == [ts EXCEPT !.thumbnailURL = thumbnailURL,
                       !.updateErr = updatedVideo]
  IN  [ts |-> Respond(t1, 200, "", ErrorValue(updatedVideo)),
       records |-> IF updateOK THEN [records EXCEPT ![video.ID] = video]
                   ELSE records]

\* Requests are numbered in the order in which they arrive.
ThumbValidate(r) ==
  /\ thumb[r].pc = "idle"
  /\ \A q \in Runs : q < r => thumb[q].pc # "idle"
  /\ \E idString \in VideoIDStrings, header \in AuthHeaders,
        formOK \in BOOLEAN, contentType \in ThumbContentTypes :
       thumb' = [thumb EXCEPT ![r] =
                   ThumbValidateStep(@, idString, header, formOK, contentType)]
  /\ UNCHANGED <<db, s3, fs, run, probe, read>>

ThumbWrite(r) ==
  /\ thumb[r].pc = "write"
  /\ \E createOK \in BOOLEAN, copyOK \in BOOLEAN :
       LET o == ThumbWriteStep(r, thumb[r], fs, createOK, copyOK)
       IN  /\ thumb' = [thumb EXCEPT ![r] = o.ts]
           /\ fs' = o.files
  /\ UNCHANGED <<db, s3, run, probe, read>>

ThumbLookup(r) ==
  /\ thumb[r].pc = "lookup"
  /\ \E dbOK \in BOOLEAN :
       thumb' = [thumb EXCEPT ![r] = ThumbLookupStep(@, db, dbOK)]
  /\ UNCHANGED <<db, s3, fs, run, probe, read>>

ThumbUpdate(r) ==
  /\ thumb[r].pc = "update"
  /\ \E updateOK \in BOOLEAN :
       LET o == ThumbUpdateStep(thumb[r], db, updateOK)
       IN  /\ thumb' = [thumb EXCEPT ![r] = o.ts]
           /\ db' = o.records
  /\ UNCHANGED <<s3, fs, run, probe, read>>

handlerUploadThumbnail(r) ==
  \/ ThumbValidate(r)
  \/ ThumbWrite(r)
  \/ ThumbLookup(r)
  \/ ThumbUpdate(r)

\* The assets directory at the start: empty, or holding the owner's earlier
\* thumbnail of v1
InitialAssets ==
  {<<>>, Put(<<>>, <<assetsRoot, "v1", ".", "png">>, Content(0, FALSE, TRUE))}

InitThumb ==
  /\ db = InitialDB
  /\ s3 = <<>>
  /\ fs \in InitialAssets
  /\ run = [r \in Runs |-> IdleRun]
  /\ probe = NoProbe
  /\ read = NoRead
  /\ thumb = [r \in Runs |-> IdleThumb]

NextThumb == \E r \in Runs : handlerUploadThumbnail(r)

SpecThumb == InitThumb /\ [][NextThumb]_vars

ThumbDone(r) == thumb[r].pc = "done"

\* C18: handlerUploadThumbnail creates or overwrites no file under the
\* assets root and updates no record unless the record exists and the
\* requester is its owner: a request that ended with "Couldn't find video"
\* or "You don't own this video" has written no asset file.
C18_RefusedThumbnailWritesNothing ==
  \A r \in Runs :
    (ThumbDone(r)
       /\ thumb[r].msg \in {"Couldn't find video", "You don't own this video"})
      => /\ thumb[r].written = {}
         /\ thumb[r].updateErr = "not called"

\* C19: handlerUploadThumbnail answers 200 only when the record update
\* succeeded, the body being the updated record with its ThumbnailURL set
\* to the new asset URL.
C19_OKOnlyAfterUpdate ==
  \A r \in Runs :
    (ThumbDone(r) /\ thumb[r].status = 200)
      => /\ thumb[r].updateErr = "nil"
         /\ thumb[r].body
              = [thumb[r].video EXCEPT !.ThumbnailURL = thumb[r].thumbnailURL]

(***************************************************************************)
(* Stored references and signed URLs                                       *)
(***************************************************************************)
IsSigned(url) == url # Nil /\ url[1] # <<>> /\ Head(url[1]) = "https://"
Reference(bucket, key) == Ptr(bucket \o <<",">> \o key)
Calls == {read.calls[i] : i \in DOMAIN read.calls}

\* C11: after any sequence of uploads and signed-URL resolutions the
\* VideoURL of every stored record is unset or the "bucket,key" reference
\* written by an upload, never a signed URL; dbVideoToSignedVideo puts the
\* signed URL in the copy it returns only, and leaves the record passed in
\* as it was.
C11_SignedURLNeverStored ==
  /\ \A id \in DOMAIN db :
       /\ ~IsSigned(db[id].VideoURL)
       /\ \/ db[id].VideoURL = Nil
          \/ \E r \in Runs :
               /\ run[r].wrote # NoVideo
               /\ run[r].wrote.ID = id
               /\ db[id].VideoURL = Reference(s3Bucket, run[r].putKey)
  /\ read.video = read.orig
  /\ \A c \in Calls :
       /\ c.arg = read.orig
       /\ c.err = "nil" /\ read.orig.VideoURL # Nil
            => IsSigned(c.video.VideoURL) /\ c.video # read.orig
       /\ c.err # "nil" => c.video = read.orig
  /\ \A r \in Runs :
       Succeeded(r) => IsSigned(run[r].body.VideoURL)

\* a stored reference was resolved to a signed URL after an upload
C11_StoredReferenceResolved ==
  \E r \in Runs, c \in Calls :
    /\ Succeeded(r)
    /\ read.orig = db[run[r].videoID]
    /\ read.orig.VideoURL = Reference(s3Bucket, run[r].putKey)
    /\ c.err = "nil"
    /\ IsSigned(c.video.VideoURL)

Commas(str) == {i \in DOMAIN str : str[i] = ","}
TwoParts(str) ==
  LET i == CHOOSE j \in Commas(str) : TRUE
  IN  <<SubSeq(str, 1, i - 1), SubSeq(str, i + 1, Len(str))>>

\* C12: for every reference an upload persisted, dbVideoToSignedVideo asks
\* for a signature of exactly the bucket and the key the object was put
\* at, and a second call on the same record asks for the same two; a
\* reference that is not two comma-separated parts gives an error and the
\* record back with its VideoURL unchanged.
C12_ReferenceRoundTrip ==
  /\ \A r \in Runs :
       run[r].wrote # NoVideo =>
         /\ run[r].putKey \in DOMAIN s3
         /\ dbVideoToSignedVideo(run[r].wrote, "client", TRUE).req
              = <<s3Bucket, run[r].putKey>>
  /\ read.orig.VideoURL # Nil =>
       LET ref == read.orig.VideoURL[1]
       IN  \A c \in Calls :
             IF Cardinality(Commas(ref)) = 1
             THEN /\ c.req = TwoParts(ref)
                  /\ c.err # "invalid video URL format"
             ELSE /\ c.err = "invalid video URL format"
                  /\ c.req = <<>>
                  /\ c.video.VideoURL = read.orig.VideoURL

\* a persisted reference was resolved twice, for the uploaded bucket and key
C12_PersistedResolvedTwice ==
  \E r \in Runs :
    /\ run[r].wrote # NoVideo
    /\ read.orig = run[r].wrote
    /\ Len(read.calls) = 2
    /\ \A c \in Calls : c.req = <<s3Bucket, run[r].putKey>>

(***************************************************************************)
(* Responses and failures                                                  *)
(***************************************************************************)
\* the checks of lines 82-130
ValidationOps ==
  {"uuid.Parse", "GetBearerToken", "ValidateJWT", "GetVideo", "NotOwner",
   "FormFile", "ParseMediaType", "UnsupportedMediaType"}

\* C13: every run writes exactly one response, none before it ends; its
\* status follows from the first failure: 4xx for a failed validation (bad
\* identifier, credential, record not found, not owner, form, content
\* type), 5xx for a failed resource, external tool or storage operation,
\* and 200 only when staging, remux, probe, put, record update and signing
\* have all been done without a failure.
C13_OneResponsePerRun ==
  \A r \in Runs :
    /\ ~Done(r) => run[r].responses = 0
    /\ Done(r) =>
         /\ run[r].responses = 1
         /\ IF run[r].faults = <<>>
            THEN run[r].status = 200
            ELSE IF Head(run[r].faults) \in ValidationOps
                 THEN run[r].status \in 400..499
                 ELSE run[r].status \in 500..599
         /\ run[r].status = 200 =>
              /\ run[r].faults = <<>>
              /\ run[r].log = CodeOrder
              /\ run[r].putKey \in DOMAIN s3
              /\ run[r].wrote # NoVideo
              /\ IsSigned(run[r].body.VideoURL)

\* one run was refused by a validation, another failed at the put
C13_BothKindsOfFailure ==
  \E r, q \in Runs :
    /\ Done(r) /\ run[r].faults = <<"NotOwner">> /\ run[r].status = 401
    /\ Done(q) /\ run[q].faults = <<"PutObject">> /\ run[q].status = 500

\* C14: the pipeline is terminal on its first failure: a run in which a
\* stage reported an error has ended with an error status at that stage,
\* with no remux, probe, put, record update or signing invoked after it,
\* and no run goes on or answers 200 after an error.
C14_TerminalOnFirstFailure ==
  \A r \in Runs :
    /\ IsPrefix(run[r].log, CodeOrder)
    /\ run[r].faults # <<>> =>
         /\ Done(r)
         /\ Len(run[r].faults) = 1
         /\ run[r].status \in 400..599
         /\ IF Head(run[r].faults) \in ValidationOps
            THEN run[r].log = <<>>
            ELSE /\ run[r].log # <<>>
                 /\ run[r].log[Len(run[r].log)] = Head(run[r].faults)
         /\ ~Invoked(r, "PutObject") => run[r].putKey = <<>>
         /\ Head(run[r].faults) # "Presign" => run[r].wrote = NoVideo

\* a run ended at a failed probe, after the remux and before the put
C14_StoppedAtProbe ==
  \E r \in Runs :
    /\ Done(r)
    /\ run[r].faults = <<"ffprobe">>
    /\ run[r].log = <<"CreateTemp", "Copy", "ffmpeg", "Seek", "ffprobe">>

\* C15: every run ends, completed or failed, even when ffprobe or ffmpeg
\* never returns: no run that has begun and has not ended is left without
\* a next step.
C15_EveryRunEnds ==
  \A r \in Runs :
    run[r].pc \in {"idle", "done"} \/ ENABLED handlerUploadVideo(r)

(***************************************************************************)
(* Concurrent uploads                                                      *)
(***************************************************************************)
Writers(id) == {r \in Updates : run[r].wrote.ID = id}
LastWriter(id) ==
  CHOOSE r \in Writers(id) : \A q \in Writers(id) : run[q].wroteSeq <= run[r].wroteSeq

\* C16: under every interleaving of the runs, a record whose VideoURL is a
\* "bucket,key" reference names a key at which the object store holds an
\* object, and once all runs have ended every record holds the reference
\* written by the run whose record update came last (or, never updated, is
\* as it was).
C16_LastUpdateWins ==
  /\ \A id \in DOMAIN db :
       db[id].VideoURL # Nil =>
         /\ Cardinality(Commas(db[id].VideoURL[1])) = 1
         /\ TwoParts(db[id].VideoURL[1])[1] = s3Bucket
         /\ TwoParts(db[id].VideoURL[1])[2] \in DOMAIN s3
  /\ (\A r \in Runs : Done(r)) =>
       \A id \in DOMAIN db :
         IF Writers(id) = {} THEN db[id] = InitialDB[id]
         ELSE db[id] = run[LastWriter(id)].wrote

\* two runs for the same record with different orientations have ended, and
\* the record holds the reference of the second update
C16_TwoOrientationsOneRecord ==
  \E r, q \in Runs :
    /\ Done(r) /\ Done(q)
    /\ run[r].wrote.ID = run[q].wrote.ID
    /\ run[r].wroteSeq = 1 /\ run[q].wroteSeq = 2
    /\ run[r].aspectRatio = "16:9" /\ run[q].aspectRatio = "9:16"
    /\ db[run[q].wrote.ID] = run[q].wrote
    /\ run[r].wrote # run[q].wrote

\* the category with the portrait test made first
PortraitFirst(w, h) ==
  IF PortraitTest(w, h) THEN "9:16"
  ELSE IF LandscapeTest(w, h) THEN "16:9"
  ELSE "other"

\* C17: for positive width and height the landscape test and the portrait
\* test are never both true, so the category does not depend on which is
\* made first; the two exact checks hold together only for width = height
\* = 0, which the code classifies as landscape.
C17_TestsExclusive ==
  probe.res # "unset" =>
    LET w == probe.w
        h == probe.h
    IN  /\ (w > 0 /\ h > 0) =>
             /\ ~(LandscapeTest(w, h) /\ PortraitTest(w, h))
             /\ probe.res = PortraitFirst(w, h)
        /\ (w * 9 = h * 16 /\ w * 16 = h * 9) <=> (w = 0 /\ h = 0)
        /\ (w = 0 /\ h = 0) => probe.res = "16:9"

\* width = height = 0 was classified, both exact checks holding
C17_ZeroByZeroLandscape ==
  /\ probe.w = 0 /\ probe.h = 0
  /\ probe.w * 9 = probe.h * 16 /\ probe.w * 16 = probe.h * 9
  /\ probe.res = "16:9"

====
